---- MODULE Spec2Model ----
(***************************************************************************)
(* Model of core/scenario/client_pool.go: a pool of *http.Client handles   *)
(* kept in a buffered channel (clientPool.clients) and refilled through a  *)
(* Factory.  Handles are the naturals 1..MaxHandles, numbered in the order *)
(* the factory produces them; 0 is the nil *http.Client.                   *)
(***************************************************************************)
EXTENDS Integers, Sequences, FiniteSets, TLC

\* ---------------------------------------------------------------- bounds
NThreads == 2
MaxCapBound == 1
MaxCallsCounted == 2

\* one handle more than the largest pool holds, so that a Put can overflow
MaxHandles == MaxCapBound + 1
Threads == 1..NThreads

\* the scenario of the design's testable properties: Construct(2, 5, f),
\* Get, Get, Put(h1), Put(h2), Put(h3), where h3 is a client the caller
\* brings itself
ScenarioArgs == <<2, 5>>
ScenarioCalls == <<"Get", "Get", "Put", "Put", "Put">>
ScenarioHandles == ScenarioArgs[1] + 1
ScenarioOff == Len(ScenarioCalls) + 1

Handles == 1..(IF MaxHandles > ScenarioHandles THEN MaxHandles ELSE ScenarioHandles)
NilClient == 0
MaxCapArgs == (0 - 1)..MaxCapBound
InitialCapArgs == (0 - 1)..(MaxCapBound + 1)

ErrInvalidCapacity == "invalid capacity settings"
ErrNilClient == "client is nil. rejecting"
PanicSendClosed == "send on closed channel"
PanicCloseClosed == "close of closed channel"

VARIABLES
    status,        \* "none" before NewClientPool, then "ok" (pool returned) or "invalid" (nil, error)
    args,          \* <<initialCap, maxCap>> passed to NewClientPool
    ctorErr,       \* error returned by NewClientPool ("" is nil)
    clientsRef,    \* the field c.clients: "nil" or "chan"
    factoryRef,    \* the field c.factory: "nil" or "factory"
    cap,           \* capacity of the channel made at line 31
    buf,           \* handles buffered in the channel, oldest first
    closed,        \* the channel has been closed
    readers,       \* number of holders of c.mu in shared mode
    writer,        \* c.mu is held in exclusive mode
    factoryCalls,  \* number of factory() invocations so far
    released,      \* released[h]: number of CloseIdleConnections calls on h
    pc,            \* position of each caller thread
    conns,         \* Get/Len: local copy of c.clients from getConnsAndFactory
    client,        \* Put: the argument
    ret,           \* the most recent return: thread, operation and value
    held,          \* handles in the hands of each caller
    fatal,         \* "" or the message of the panic that ended the process
    \* observers: they record history and never influence the program
    nCalls,        \* calls started on the pool, counted up to MaxCallsCounted
    afterDone,     \* afterDone[t]: t's current call started after a Done returned
    rt,            \* a Get followed by the Put of its result, run alone
    putRun,        \* consecutive Puts run alone, starting on an empty buffer
    doneObs,       \* a Done run alone
    scen,          \* calls of ScenarioCalls returned so far, in order, or ScenarioOff
    burst          \* every thread took a handle out, then all put theirs back

poolVars == <<status, args, ctorErr, clientsRef, factoryRef, cap>>
chanVars == <<buf, closed>>
vars == <<status, args, ctorErr, clientsRef, factoryRef, cap, buf, closed,
          readers, writer, factoryCalls, released, pc, conns, client, ret,
          held, fatal, nCalls, afterDone, rt, putRun, doneObs, scen, burst>>
obsVars == <<nCalls, afterDone, rt, putRun, doneObs, scen, burst>>

NoRet == [t |-> 0, op |-> "none", h |-> NilClient, err |-> "", n |-> 0]
RetGet(t, h) == [t |-> t, op |-> "Get", h |-> h, err |-> "", n |-> 0]
RetPut(t, e) == [t |-> t, op |-> "Put", h |-> NilClient, err |-> e, n |-> 0]
RetLen(t, n) == [t |-> t, op |-> "Len", h |-> NilClient, err |-> "", n |-> n]
RetDone(t) == [t |-> t, op |-> "Done", h |-> NilClient, err |-> "", n |-> 0]

\* ---------------------------------------------------- channel primitives
\* len(ch)
ChanLen(b) == Len(b)

SendReadyAlways(b, c, cl) == TRUE

SendReadyOneSpare(b, c, cl) == cl \/ Len(b) < c - 1

\* a non-blocking send can proceed: a closed channel is always "ready"
\* (and panics), an open one is ready when the buffer has room
SendReady(b, c, cl) == cl \/ Len(b) < c

\* a receive can proceed: a buffered element, or a closed channel
RecvReady(b, cl) == Len(b) > 0 \/ cl

\* value delivered by a receive that can proceed
RecvValue(b) == IF Len(b) > 0 THEN Head(b) ELSE NilClient

RecvRest(b) == IF Len(b) > 0 THEN Tail(b) ELSE b

\* client.CloseIdleConnections()
CloseIdleConnections(rel, h) == [rel EXCEPT ![h] = @ + 1]

\* pool.factory(): the next fresh handle
Factory(n) == n + 1

RLockExclusive(w) == ~w /\ readers = 0

\* RWMutex: RLock waits only for a writer
RLockReady(w) == ~w

Running == status = "ok" /\ fatal = ""
InScenario == args = ScenarioArgs

\* handles the factory may still produce: the model stops calling it there
HandleLimit == IF InScenario THEN ScenarioHandles ELSE MaxHandles
InGet(t) == pc[t] = "get_select"
GetsInFlight == Cardinality({t \in Threads : InGet(t)})

\* -------------------------------------------------------------- observers
OthersIdle(t) == \A u \in Threads \ {t} : pc[u] = "idle"
AllIdle == \A u \in Threads : pc[u] = "idle"

\* a Done has closed the channel and returned
DoneCompleted == closed /\ \A u \in Threads : pc[u] \notin {"done_range", "panicked"}

CountCall == IF nCalls < MaxCallsCounted THEN nCalls + 1 ELSE nCalls

NoRel == [h \in Handles |-> 0]
RtNone == [t |-> 0, phase |-> "none", h |-> NilClient, len0 |-> 0, fc0 |-> 0, rel0 |-> NoRel]
PutRunNone == [t |-> 0, hs |-> <<>>, rel0 |-> NoRel]
DoneObsNone == [t |-> 0, phase |-> "none", buf0 |-> <<>>, rel0 |-> NoRel]
BurstNone == [phase |-> "none", hs |-> {}, rel0 |-> NoRel]

\* the round trip Put(Get()): recorded from a Get that starts on an open,
\* non-empty pool while every other thread is idle, dropped as soon as
\* another thread or another call steps in
RtNext(t, op, h) ==
    IF op = "GetCall"
    THEN IF OthersIdle(t) /\ ~closed /\ Len(buf) > 0
         THEN [t |-> t, phase |-> "get", h |-> NilClient, len0 |-> Len(buf),
               fc0 |-> factoryCalls, rel0 |-> released]
         ELSE RtNone
    ELSE IF op = "GetRet" /\ rt.t = t /\ rt.phase = "get"
    THEN [rt EXCEPT !.phase = "got", !.h = h]
    ELSE IF op = "PutCall" /\ rt.t = t /\ rt.phase = "got" /\ rt.h = h /\ h # NilClient
    THEN [rt EXCEPT !.phase = "put"]
    ELSE IF op = "PutRet" /\ rt.t = t /\ rt.phase = "put"
    THEN [rt EXCEPT !.phase = "done"]
    ELSE RtNone

\* consecutive Puts of non-nil handles by one thread, the first on an open
\* empty buffer, nothing else running in between; hs lists the handles put
PutRunNext(t, op, h) ==
    IF op = "PutCall" /\ h # NilClient
    THEN IF OthersIdle(t) /\ ~closed /\ buf = <<>>
         THEN [t |-> t, hs |-> <<h>>, rel0 |-> released]
         ELSE IF putRun.t = t /\ Len(putRun.hs) <= cap
              THEN [putRun EXCEPT !.hs = Append(@, h)]
              ELSE PutRunNone
    ELSE IF op = "PutRet" /\ putRun.t = t
    THEN putRun
    ELSE PutRunNone

\* a Done that starts on an open pool while every other thread is idle
DoneObsNext(t, op) ==
    IF op = "DoneCall"
    THEN IF OthersIdle(t) /\ ~closed
         THEN [t |-> t, phase |-> "drain", buf0 |-> buf, rel0 |-> released]
         ELSE DoneObsNone
    ELSE IF op = "DoneStep" /\ doneObs.t = t
    THEN doneObs
    ELSE IF op = "DoneRet" /\ doneObs.t = t
    THEN [doneObs EXCEPT !.phase = "returned"]
    ELSE DoneObsNone

\* progress through ScenarioCalls on a pool built with ScenarioArgs: a
\* returning Get or Put that is the next call of the scenario advances it,
\* Len and the caller's own client leave it, anything else ends it
ScenNext(op) ==
    IF ~InScenario \/ op \in {"GetCall", "PutCall", "LenCall", "LenRet", "Own"}
    THEN scen
    ELSE IF scen < Len(ScenarioCalls) /\ op = "GetRet" /\ ScenarioCalls[scen + 1] = "Get"
    THEN scen + 1
    ELSE IF scen < Len(ScenarioCalls) /\ op = "PutRet" /\ ScenarioCalls[scen + 1] = "Put"
    THEN scen + 1
    ELSE ScenarioOff

\* more threads than the pool has room for each hold one handle, on an
\* open empty pool ("out"); then nothing but their Puts runs until every
\* handle has been put back ("back")
BurstNext(t, op) ==
    IF op = "GetRet"
    THEN IF /\ ~closed /\ buf' = <<>> /\ NThreads > cap
            /\ \A u \in Threads : pc'[u] = "idle" /\ Cardinality(held'[u]) = 1
         THEN [phase |-> "out", hs |-> UNION {held'[u] : u \in Threads}, rel0 |-> released]
         ELSE BurstNone
    ELSE IF burst.phase = "out" /\ op = "PutCall"
    THEN burst
    ELSE IF burst.phase = "out" /\ op = "PutRet"
    THEN IF \A u \in Threads : pc'[u] = "idle" /\ held'[u] = {}
         THEN [burst EXCEPT !.phase = "back"]
         ELSE burst
    ELSE BurstNone

\* the observers' step: op is the kind of step thread t takes, h the handle
\* it passes or returns
Observe(t, op, h) ==
    /\ scen' = ScenNext(op)
    /\ burst' = BurstNext(t, op)
    /\ nCalls' = IF op \in {"GetCall", "PutCall", "LenCall", "DoneCall"}
                 THEN CountCall ELSE nCalls
    /\ afterDone' = [afterDone EXCEPT ![t] =
                        IF op \in {"GetCall", "PutCall", "LenCall", "DoneCall"}
                        THEN DoneCompleted
                        ELSE IF op \in {"GetRet", "PutRet", "LenRet", "DoneRet"}
                             THEN FALSE ELSE @]
    /\ rt' = RtNext(t, op, h)
    /\ putRun' = PutRunNext(t, op, h)
    /\ doneObs' = DoneObsNext(t, op)

\* ------------------------------------------------------------------ Init
Init ==
    /\ status = "none"
    /\ args = <<0, 0>>
    /\ ctorErr = ""
    /\ clientsRef = "nil"
    /\ factoryRef = "nil"
    /\ cap = 0
    /\ buf = <<>>
    /\ closed = FALSE
    /\ readers = 0
    /\ writer = FALSE
    /\ factoryCalls = 0
    /\ released = [h \in Handles |-> 0]
    /\ pc = [t \in Threads |-> "idle"]
    /\ conns = [t \in Threads |-> "nil"]
    /\ client = [t \in Threads |-> NilClient]
    /\ ret = NoRet
    /\ held = [t \in Threads |-> {}]
    /\ fatal = ""
    /\ nCalls = 0
    /\ afterDone = [t \in Threads |-> FALSE]
    /\ rt = RtNone
    /\ putRun = PutRunNone
    /\ doneObs = DoneObsNone
    /\ scen = 0
    /\ burst = BurstNone

\* --------------------------------------------------------- NewClientPool
ValidCapacityZeroMax(initialCap, maxCap) ==
    ~(initialCap < 0 \/ maxCap < 0 \/ initialCap > maxCap)

\* line 26
ValidCapacity(initialCap, maxCap) ==
    ~(initialCap < 0 \/ maxCap <= 0 \/ initialCap > maxCap)

\* the channel after the fill loop of lines 37-40
RECURSIVE InitialFillShort(_, _, _, _)
InitialFillShort(i, initialCap, b, fc) ==
    IF i < initialCap - 1
    THEN InitialFillShort(i + 1, initialCap, Append(b, Factory(fc)), fc + 1)
    ELSE <<b, fc>>

RECURSIVE InitialFillLeaks(_, _, _, _)
InitialFillLeaks(i, initialCap, b, fc) ==
    IF i < initialCap
    THEN InitialFillLeaks(i + 1, initialCap, b, fc + 1)
    ELSE <<b, fc>>

\* as <<buffer, factory calls>>
RECURSIVE InitialFill(_, _, _, _)
InitialFill(i, initialCap, b, fc) ==
    IF i < initialCap
    THEN InitialFill(i + 1, initialCap, Append(b, Factory(fc)), fc + 1)
    ELSE <<b, fc>>

NewClientPool(initialCap, maxCap) ==
    /\ status = "none"
    /\ args' = <<initialCap, maxCap>>
    /\ IF ValidCapacity(initialCap, maxCap)
       THEN /\ status' = "ok"
            /\ ctorErr' = ""
            /\ clientsRef' = "chan"
            /\ factoryRef' = "factory"
            /\ cap' = maxCap
            /\ buf' = InitialFill(0, initialCap, <<>>, 0)[1]
            /\ factoryCalls' = InitialFill(0, initialCap, <<>>, 0)[2]
       ELSE /\ status' = "invalid"
            /\ ctorErr' = ErrInvalidCapacity
            /\ UNCHANGED <<clientsRef, factoryRef, cap, buf, factoryCalls>>
    /\ UNCHANGED <<closed, readers, writer, released, pc, conns, client, ret,
                   held, fatal, obsVars>>

\* ------------------------------------------------------------------- Get
\* line 54: getConnsAndFactory (lines 45-51) takes and gives back the read
\* lock around the two field reads
GetConns(t) ==
    /\ Running
    /\ pc[t] = "idle"
    /\ factoryCalls + GetsInFlight < HandleLimit
    /\ RLockReady(writer)
    /\ conns' = [conns EXCEPT ![t] = clientsRef]
    /\ pc' = [pc EXCEPT ![t] = "get_select"]
    /\ UNCHANGED <<poolVars, chanVars, readers, writer, factoryCalls, released,
                   client, ret, held, fatal>>
    /\ Observe(t, "GetCall", NilClient)

GetSelectBlindRecv(cn, b, cl, fc) == <<RecvValue(b), RecvRest(b), fc>>

GetSelectAlwaysNew(cn, b, cl, fc) == <<Factory(fc), b, fc + 1>>

GetSelectPeek(cn, b, cl, fc) ==
    IF cn = "chan" /\ RecvReady(b, cl)
    THEN <<RecvValue(b), b, fc>>
    ELSE <<Factory(fc), b, fc + 1>>

GetSelectClosedMakesNew(cn, b, cl, fc) ==
    IF cn = "chan" /\ Len(b) > 0
    THEN <<RecvValue(b), RecvRest(b), fc>>
    ELSE <<Factory(fc), b, fc + 1>>

\* outcome of the select of lines 57-61 as <<client, buf, factoryCalls>>
GetSelectOutcome(cn, b, cl, fc) ==
    IF cn = "chan" /\ RecvReady(b, cl)
    THEN <<RecvValue(b), RecvRest(b), fc>>
    ELSE <<Factory(fc), b, fc + 1>>

\* lines 56-62
GetSelect(t) ==
    /\ Running
    /\ pc[t] = "get_select"
    /\ LET o == GetSelectOutcome(conns[t], buf, closed, factoryCalls) IN
         /\ buf' = o[2]
         /\ factoryCalls' = o[3]
         /\ ret' = RetGet(t, o[1])
         /\ held' = [held EXCEPT ![t] = IF o[1] = NilClient THEN @ ELSE @ \cup {o[1]}]
    /\ conns' = [conns EXCEPT ![t] = "nil"]
    /\ pc' = [pc EXCEPT ![t] = "idle"]
    /\ UNCHANGED <<poolVars, closed, readers, writer, released, client, fatal>>
    /\ Observe(t, "GetRet", ret'.h)

\* ------------------------------------------------------------------- Put
RejectsNothing(h) == FALSE

\* line 66
RejectsClient(h) == h = NilClient

\* lines 66-71: the nil check, then c.mu.RLock()
PutCall(t, h) ==
    /\ Running
    /\ pc[t] = "idle"
    /\ h \in held[t] \cup {NilClient}
    /\ IF RejectsClient(h)
       THEN /\ ret' = RetPut(t, ErrNilClient)
            /\ UNCHANGED <<readers, client, held, pc>>
            /\ Observe(t, "PutNil", h)
       ELSE /\ RLockReady(writer)
            /\ readers' = readers + 1
            /\ client' = [client EXCEPT ![t] = h]
            /\ held' = [held EXCEPT ![t] = @ \ {h}]
            /\ pc' = [pc EXCEPT ![t] = "put_select"]
            /\ UNCHANGED ret
            /\ Observe(t, "PutCall", h)
    /\ UNCHANGED <<poolVars, chanVars, writer, factoryCalls, released, conns, fatal>>

PutSelectDropsOverflow(ref, b, c, cl, rel, h) ==
    IF ref = "nil"
    THEN <<b, CloseIdleConnections(rel, h), "">>
    ELSE IF SendReady(b, c, cl)
         THEN IF cl
              THEN <<b, rel, PanicSendClosed>>
              ELSE <<Append(b, h), rel, "">>
         ELSE <<b, rel, "">>

PutSelectStoresAndCloses(ref, b, c, cl, rel, h) ==
    IF ref = "nil"
    THEN <<b, CloseIdleConnections(rel, h), "">>
    ELSE IF SendReady(b, c, cl)
         THEN IF cl
              THEN <<b, rel, PanicSendClosed>>
              ELSE <<Append(b, h), CloseIdleConnections(rel, h), "">>
         ELSE <<b, CloseIdleConnections(rel, h), "">>

PutSelectIgnoresClose(ref, b, c, cl, rel, h) ==
    IF ref = "nil"
    THEN <<b, CloseIdleConnections(rel, h), "">>
    ELSE IF Len(b) < c
         THEN <<Append(b, h), rel, "">>
         ELSE <<b, CloseIdleConnections(rel, h), "">>

\* outcome of lines 73-88 as <<buf, released, panic>>
PutSelectOutcome(ref, b, c, cl, rel, h) ==
    IF ref = "nil"
    THEN <<b, CloseIdleConnections(rel, h), "">>
    ELSE IF SendReady(b, c, cl)
         THEN IF cl
              THEN <<b, rel, PanicSendClosed>>
              ELSE <<Append(b, h), rel, "">>
         ELSE <<b, CloseIdleConnections(rel, h), "">>

\* lines 73-88, then the deferred c.mu.RUnlock() of line 71, which also
\* runs while a panic unwinds
PutSelect(t) ==
    /\ Running
    /\ pc[t] = "put_select"
    /\ LET o == PutSelectOutcome(clientsRef, buf, cap, closed, released, client[t]) IN
         /\ buf' = o[1]
         /\ released' = o[2]
         /\ fatal' = o[3]
         /\ IF o[3] = ""
            THEN /\ pc' = [pc EXCEPT ![t] = "idle"]
                 /\ ret' = RetPut(t, "")
            ELSE /\ pc' = [pc EXCEPT ![t] = "panicked"]
                 /\ UNCHANGED ret
    /\ readers' = readers - 1
    /\ client' = [client EXCEPT ![t] = NilClient]
    /\ UNCHANGED <<poolVars, closed, writer, factoryCalls, conns, held>>
    /\ Observe(t, IF fatal' = "" THEN "PutRet" ELSE "PutPanic", NilClient)

\* ------------------------------------------------------------------- Len
\* line 92: getConnsAndFactory
LenConns(t) ==
    /\ Running
    /\ pc[t] = "idle"
    /\ RLockReady(writer)
    /\ conns' = [conns EXCEPT ![t] = clientsRef]
    /\ pc' = [pc EXCEPT ![t] = "len_len"]
    /\ UNCHANGED <<poolVars, chanVars, readers, writer, factoryCalls, released,
                   client, ret, held, fatal>>
    /\ Observe(t, "LenCall", NilClient)

LenValueCap(cn, b) == IF cn = "chan" THEN cap ELSE 0

\* line 93: len(conns); the length of a nil channel is 0
LenValue(cn, b) == IF cn = "chan" THEN ChanLen(b) ELSE 0

LenLen(t) ==
    /\ Running
    /\ pc[t] = "len_len"
    /\ ret' = RetLen(t, LenValue(conns[t], buf))
    /\ conns' = [conns EXCEPT ![t] = "nil"]
    /\ pc' = [pc EXCEPT ![t] = "idle"]
    /\ UNCHANGED <<poolVars, chanVars, readers, writer, factoryCalls, released,
                   client, held, fatal>>
    /\ Observe(t, "LenRet", NilClient)

\* ------------------------------------------------------------------ Done
DoneCloseIdempotent(cl) == ""

\* line 97: close(c.clients); closing a closed channel panics
DoneCloseOutcome(cl) == IF cl THEN PanicCloseClosed ELSE ""

DoneCloseNilsRef(t) ==
    /\ Running
    /\ pc[t] = "idle"
    /\ fatal' = DoneCloseOutcome(closed)
    /\ closed' = TRUE
    /\ clientsRef' = "nil"
    /\ pc' = [pc EXCEPT ![t] = IF closed THEN "panicked" ELSE "done_range"]
    /\ UNCHANGED <<status, args, ctorErr, factoryRef, cap, buf, readers, writer,
                   factoryCalls, released, conns, client, ret, held>>
    /\ Observe(t, IF closed THEN "DonePanic" ELSE "DoneCall", NilClient)

DoneClose(t) ==
    /\ Running
    /\ pc[t] = "idle"
    /\ fatal' = DoneCloseOutcome(closed)
    /\ closed' = TRUE
    /\ pc' = [pc EXCEPT ![t] = IF closed THEN "panicked" ELSE "done_range"]
    /\ UNCHANGED <<poolVars, buf, readers, writer, factoryCalls, released,
                   conns, client, ret, held>>
    /\ Observe(t, IF closed THEN "DonePanic" ELSE "DoneCall", NilClient)

DrainOneNoClose(b, rel) == <<RecvRest(b), rel>>

\* lines 98-99: one iteration of the range loop, as <<buf, released>>
DrainOne(b, rel) == <<RecvRest(b), CloseIdleConnections(rel, RecvValue(b))>>

\* lines 98-100: one iteration of the range loop, or its exit once the
\* closed channel is empty
DoneRange(t) ==
    /\ Running
    /\ pc[t] = "done_range"
    /\ RecvReady(buf, closed)
    /\ IF Len(buf) > 0
       THEN /\ buf' = DrainOne(buf, released)[1]
            /\ released' = DrainOne(buf, released)[2]
            /\ UNCHANGED <<pc, ret>>
       ELSE /\ pc' = [pc EXCEPT ![t] = "idle"]
            /\ ret' = RetDone(t)
            /\ UNCHANGED <<buf, released>>
    /\ UNCHANGED <<poolVars, closed, readers, writer, factoryCalls, conns,
                   client, held, fatal>>
    /\ Observe(t, IF Len(buf) > 0 THEN "DoneStep" ELSE "DoneRet", NilClient)

\* ------------------------------------------------------------------ Next
Next ==
    \/ \E ic \in InitialCapArgs, mc \in MaxCapArgs : NewClientPool(ic, mc)
    \/ \E t \in Threads : GetConns(t)
    \/ \E t \in Threads : GetSelect(t)
    \/ \E t \in Threads : \E h \in Handles \cup {NilClient} : PutCall(t, h)
    \/ \E t \in Threads : PutSelect(t)
    \/ \E t \in Threads : LenConns(t)
    \/ \E t \in Threads : LenLen(t)
    \/ \E t \in Threads : DoneClose(t)
    \/ \E t \in Threads : DoneRange(t)

Spec == Init /\ [][Next]_vars

\* ---------------------------------------------------------- the scenario
\* the caller of the scenario makes a client of its own with the factory
CallerMakesClient(t) ==
    /\ Running
    /\ InScenario
    /\ pc[t] = "idle"
    /\ factoryCalls + GetsInFlight < HandleLimit
    /\ factoryCalls' = factoryCalls + 1
    /\ held' = [held EXCEPT ![t] = @ \cup {Factory(factoryCalls)}]
    /\ UNCHANGED <<poolVars, chanVars, readers, writer, released, pc, conns,
                   client, ret, fatal>>
    /\ Observe(t, "Own", NilClient)

ScenarioNext ==
    \/ NewClientPool(ScenarioArgs[1], ScenarioArgs[2])
    \/ \E t \in Threads : CallerMakesClient(t)
    \/ \E t \in Threads : GetConns(t)
    \/ \E t \in Threads : GetSelect(t)
    \/ \E t \in Threads : \E h \in Handles \cup {NilClient} : PutCall(t, h)
    \/ \E t \in Threads : PutSelect(t)
    \/ \E t \in Threads : LenConns(t)
    \/ \E t \in Threads : LenLen(t)
    \/ \E t \in Threads : DoneClose(t)
    \/ \E t \in Threads : DoneRange(t)

ScenarioSpec == Init /\ [][ScenarioNext]_vars

TypeOK ==
    /\ status \in {"none", "ok", "invalid"}
    /\ readers \in 0..NThreads
    /\ factoryCalls \in 0..HandleLimit
    /\ \A t \in Threads : held[t] \subseteq Handles

\* ------------------------------------------------------------- properties
InitialCapArg == args[1]
MaxCapArg == args[2]
Constructed == status # "none"
Occurrences(s, h) == Cardinality({i \in DOMAIN s : s[i] = h})
Existing == {buf[i] : i \in DOMAIN buf} \cup UNION {held[t] : t \in Threads}
            \cup {client[t] : t \in Threads} \cup {h \in Handles : released[h] > 0}
\* thread t takes the last step of the call it is in
Returns(t, at) == pc[t] = at /\ pc'[t] # at

\* C1: in every reachable state the number of handles resident in the
\* buffer is between 0 and the maxCap given to NewClientPool; no handle is
\* resident before a pool exists.
C1_ResidentWithinMaxCap ==
    /\ status = "ok" => (Len(buf) >= 0 /\ Len(buf) <= MaxCapArg)
    /\ status # "ok" => Len(buf) = 0

\* a full open pool on which a Put has already released its overflow,
\* while another call is in progress
C1_Witness ==
    /\ status = "ok" /\ ~closed
    /\ Len(buf) = MaxCapArg
    /\ \E h \in Handles : released[h] > 0
    /\ \E t \in Threads : pc[t] # "idle"

\* what NewClientPool leaves behind when it succeeds, as long as no call
\* has started, and what a Len that is the only call so far returns
ConstructedWith(initialCap) ==
    /\ status = "ok" /\ ctorErr = "" /\ clientsRef = "chan"
    /\ nCalls = 0 =>
         /\ factoryCalls = initialCap
         /\ buf = [i \in 1..initialCap |-> i]
         /\ LenValue(clientsRef, buf) = initialCap
    /\ (nCalls = 1 /\ ret.op = "Len") => ret.n = initialCap

\* C2 as stated: every (initialCap, maxCap) with 0 <= initialCap <= maxCap
\* constructs a pool with initialCap factory calls, all enqueued, and Len()
\* right afterwards is initialCap.
C2_OrderedCapacityConstructs ==
    (Constructed /\ 0 <= InitialCapArg /\ InitialCapArg <= MaxCapArg)
        => ConstructedWith(InitialCapArg)

\* C2 amended: every (initialCap, maxCap) with 0 <= initialCap <= maxCap
\* and maxCap >= 1 constructs a pool with exactly initialCap factory calls,
\* all enqueued, and Len() right afterwards is initialCap.
C2_ValidCapacityConstructs ==
    (Constructed /\ 0 <= InitialCapArg /\ InitialCapArg <= MaxCapArg /\ MaxCapArg >= 1)
        => ConstructedWith(InitialCapArg)

\* a pool built with initial handles on which the only call so far, a
\* Len, has returned
C2_Witness ==
    /\ status = "ok" /\ InitialCapArg >= 1
    /\ nCalls = 1 /\ ret.op = "Len" /\ ret.n = InitialCapArg

\* C3: with initialCap < 0, maxCap < 1 or initialCap > maxCap NewClientPool
\* returns the invalid-capacity error and no pool, and never calls the
\* factory.
C3_InvalidCapacityRejected ==
    (Constructed /\ (InitialCapArg < 0 \/ MaxCapArg < 1 \/ InitialCapArg > MaxCapArg))
        => /\ status = "invalid"
           /\ ctorErr = ErrInvalidCapacity
           /\ clientsRef = "nil" /\ factoryRef = "nil"
           /\ factoryCalls = 0
           /\ buf = <<>>

\* a rejected construction whose only fault is maxCap = 0
C3_Witness ==
    /\ status = "invalid" /\ ctorErr = ErrInvalidCapacity
    /\ InitialCapArg = 0 /\ MaxCapArg = 0

\* C4: a Get whose select finds the open buffer empty can always take that
\* step, whatever the other threads are doing, and returns a non-nil handle
\* that one new factory call produced and nobody had before.
C4_GetOnEmptyMakesFreshHandle ==
    /\ [](\A t \in Threads :
            (Running /\ pc[t] = "get_select" /\ ~closed /\ buf = <<>>)
                => ENABLED GetSelect(t))
    /\ [][\A t \in Threads :
            (Returns(t, "get_select") /\ ~closed /\ buf = <<>>)
                => /\ ret' = RetGet(t, factoryCalls + 1)
                   /\ ret'.h # NilClient
                   /\ ret'.h \notin Existing
                   /\ ret'.h \in held'[t]
                   /\ factoryCalls' = factoryCalls + 1
                   /\ buf' = <<>>
                   /\ pc'[t] = "idle"
                   /\ fatal' = ""]_vars

\* a Get has just returned a handle made by the factory on an open empty
\* pool while another thread is inside Get or Put
C4_Witness ==
    /\ status = "ok" /\ ~closed /\ buf = <<>>
    /\ ret.op = "Get" /\ ret.h = factoryCalls /\ ret.h > InitialCapArg
    /\ ret.h \in held[ret.t]
    /\ \E u \in Threads \ {ret.t} : pc[u] \in {"get_select", "put_select"}

\* C5: the select of a Put of a non-nil handle on an open pool can always
\* be taken and returns nil: the handle is appended when fewer than maxCap
\* handles are resident, and is released, not queued, when the buffer is
\* full.  After maxCap + 1 consecutive Puts starting on an empty pool the
\* first maxCap handles are resident and only the last one was released.
C5_PutStoresOrReleases ==
    /\ [](\A t \in Threads :
            (Running /\ pc[t] = "put_select" /\ ~closed) => ENABLED PutSelect(t))
    /\ [][\A t \in Threads :
            (Returns(t, "put_select") /\ ~closed)
                => /\ ret' = RetPut(t, "")
                   /\ fatal' = ""
                   /\ pc'[t] = "idle"
                   /\ client[t] # NilClient
                   /\ IF Len(buf) < MaxCapArg
                      THEN /\ buf' = Append(buf, client[t])
                           /\ released' = released
                      ELSE /\ buf' = buf
                           /\ released' = [released EXCEPT ![client[t]] = @ + 1]]_vars
    /\ []((putRun.t # 0 /\ Len(putRun.hs) = MaxCapArg + 1 /\ pc[putRun.t] = "idle")
            => /\ LenValue(clientsRef, buf) = MaxCapArg
               /\ buf = SubSeq(putRun.hs, 1, MaxCapArg)
               /\ released = [putRun.rel0 EXCEPT ![putRun.hs[MaxCapArg + 1]] = @ + 1]
               /\ ret = RetPut(putRun.t, ""))

\* maxCap + 1 consecutive Puts on an initially empty pool have returned
C5_Witness ==
    /\ putRun.t # 0 /\ pc[putRun.t] = "idle" /\ ~closed
    /\ MaxCapArg >= 1
    /\ Len(putRun.hs) = MaxCapArg + 1
    /\ released[putRun.hs[MaxCapArg + 1]] = 1

\* C6: Put(nil) can be called in every state of a live pool, returns the
\* nil-client error and changes nothing else: not the buffer, its length,
\* the released handles, the lock or any thread.
C6_PutNilRejected ==
    /\ [](\A t \in Threads : (Running /\ pc[t] = "idle") => ENABLED PutCall(t, NilClient))
    /\ [][\A t \in Threads :
            PutCall(t, NilClient)
                => /\ ret' = RetPut(t, ErrNilClient)
                   /\ LenValue(clientsRef', buf') = LenValue(clientsRef, buf)
                   /\ UNCHANGED <<buf, closed, released, readers, writer, factoryCalls,
                                  clientsRef, factoryRef, pc, held, client, fatal>>]_vars

\* Put(nil) has just been rejected on a pool that holds handles and has
\* already released one
C6_Witness ==
    /\ ret.op = "Put" /\ ret.err = ErrNilClient
    /\ Len(buf) > 0
    /\ \E h \in Handles : released[h] > 0

\* C7: a Put of a non-nil handle that starts after Done has returned ends
\* without a panic, returns nil, releases the handle and queues nothing.
C7_PutAfterDoneSucceeds ==
    [][\A t \in Threads :
        (Returns(t, "put_select") /\ afterDone[t])
            => /\ fatal' = ""
               /\ ret' = RetPut(t, "")
               /\ released' = [released EXCEPT ![client[t]] = @ + 1]
               /\ Len(buf') <= Len(buf)]_vars

\* C8: a Done that runs alone closes the channel first and then drains it
\* in order: while it drains, what it has taken out so far has been
\* released once more than before; when it returns the channel is closed
\* and empty and every handle that was resident was released exactly once.
C8_DoneDrainsAll ==
    /\ doneObs.phase = "drain" =>
         /\ closed
         /\ \E k \in 0..Len(doneObs.buf0) :
              /\ buf = SubSeq(doneObs.buf0, k + 1, Len(doneObs.buf0))
              /\ \A h \in Handles :
                   released[h] = doneObs.rel0[h]
                                 + Occurrences(SubSeq(doneObs.buf0, 1, k), h)
    /\ doneObs.phase = "returned" =>
         /\ closed /\ fatal = ""
         /\ buf = <<>>
         /\ LenValue(clientsRef, buf) = 0
         /\ ret = RetDone(doneObs.t)
         /\ \A h \in Handles :
              released[h] = doneObs.rel0[h] + Occurrences(doneObs.buf0, h)

\* a Done run alone has returned after draining a full pool
C8_Witness ==
    /\ doneObs.phase = "returned"
    /\ Len(doneObs.buf0) >= 1 /\ Len(doneObs.buf0) = MaxCapArg
    /\ \A i \in DOMAIN doneObs.buf0 : released[doneObs.buf0[i]] = 1

\* C9: Put(Get()) run alone on an open pool with a resident handle leaves
\* Len() as it was, calls the factory zero times and releases nothing.
C9_RoundTrip ==
    rt.phase = "done" =>
        /\ LenValue(clientsRef, buf) = rt.len0
        /\ factoryCalls = rt.fc0
        /\ released = rt.rel0
        /\ ret = RetPut(rt.t, "")
        /\ rt.h \notin held[rt.t]

\* a round trip has completed and its handle is resident again
C9_Witness ==
    /\ rt.phase = "done" /\ rt.len0 >= 1
    /\ rt.h # NilClient /\ buf[Len(buf)] = rt.h

\* C10: on an open pool the lock is never held exclusively, so a call's
\* lock acquisition never waits; every step of a started Get, Put or Len
\* can be taken at once whatever the other threads do, and that step is
\* the call's last.
C10_CallsNeverWait ==
    /\ [](~writer)
    /\ []((Running /\ ~closed) => \A t \in Threads :
            /\ pc[t] = "get_select" => ENABLED GetSelect(t)
            /\ pc[t] = "put_select" => ENABLED PutSelect(t)
            /\ pc[t] = "len_len" => ENABLED LenLen(t)
            /\ pc[t] = "idle" =>
                 /\ ENABLED LenConns(t)
                 /\ \A h \in held[t] : ENABLED PutCall(t, h)
                 /\ factoryCalls + GetsInFlight < HandleLimit => ENABLED GetConns(t))
    /\ [][\A t \in Threads :
            (~closed /\ pc[t] \in {"get_select", "put_select", "len_len"} /\ pc'[t] # pc[t])
                => (pc'[t] = "idle" /\ fatal' = "" /\ ret'.t = t)]_vars

\* two threads hold the read lock inside Put on an open pool
C10_Witness ==
    /\ status = "ok" /\ ~closed
    /\ readers >= 2
    /\ \E t, u \in Threads : t # u /\ pc[t] = "put_select" /\ pc[u] = "put_select"
\* C11: Len can be called in every state of a live pool, before and after
\* Done, never panics, changes nothing and returns the number of handles
\* buffered at the instant of its len(); on the pool built with (2, 5) it
\* reads 2 after construction, 0 after the two Gets and 3 after the three
\* Puts.
C11_LenReadsResident ==
    /\ [](\A t \in Threads :
            /\ (Running /\ pc[t] = "idle") => ENABLED LenConns(t)
            /\ (Running /\ pc[t] = "len_len") => ENABLED LenLen(t))
    /\ [][\A t \in Threads :
            Returns(t, "len_len")
                => /\ ret' = RetLen(t, Len(buf))
                   /\ pc'[t] = "idle"
                   /\ fatal' = ""
                   /\ UNCHANGED <<buf, closed, released, factoryCalls, held>>]_vars
    /\ []((InScenario /\ ret.op = "Len") =>
            /\ scen = 0 => ret.n = 2
            /\ scen = 2 => ret.n = 0
            /\ scen = 5 => ret.n = 3)

\* Len has read 3 at the end of the scenario, the third Put being of a
\* client the pool never held
C11_Witness ==
    /\ InScenario /\ scen = 5
    /\ ret.op = "Len" /\ ret.n = 3
    /\ buf = <<1, 2, 3>>
\* the places a handle is in: buffered in the channel, in a caller's hands
\* (held, or passed to a Put that has not finished), released
Pooled(h) == Occurrences(buf, h)
InUse(h) == Cardinality({t \in Threads : h \in held[t]})
            + Cardinality({t \in Threads : client[t] = h})

\* C12: callers put back only handles they hold, and then at every instant
\* of a live pool each handle the factory has produced is in exactly one
\* place: buffered once, or with one caller, or released once; a handle not
\* yet produced is nowhere.
C12_OneStatePerHandle ==
    Running => \A h \in Handles :
        Pooled(h) + InUse(h) + released[h] = IF h <= factoryCalls THEN 1 ELSE 0

\* while a Done drains, one handle is already released and another is
\* with a caller
C12_Witness ==
    /\ Running
    /\ \E t \in Threads : pc[t] = "done_range"
    /\ \E h \in Handles : released[h] = 1
    /\ \E h \in Handles : InUse(h) = 1
\* C13: a Get whose select finds a handle in the open buffer returns the
\* oldest buffered handle, takes exactly that one out and does not call the
\* factory; a Get on an open pool calls the factory only when the select
\* finds the buffer empty.
C13_GetReusesResident ==
    [][\A t \in Threads :
        (Returns(t, "get_select") /\ ~closed)
            => /\ Len(buf) > 0 =>
                    /\ ret' = RetGet(t, buf[1])
                    /\ buf' = SubSeq(buf, 2, Len(buf))
                    /\ Len(buf') = Len(buf) - 1
                    /\ factoryCalls' = factoryCalls
                    /\ held' = [held EXCEPT ![t] = @ \cup {buf[1]}]
               /\ factoryCalls' # factoryCalls => buf = <<>>
               /\ released' = released]_vars

\* a Get has returned a handle of the initial fill and the factory has not
\* been called since construction
C13_Witness ==
    /\ status = "ok" /\ ~closed
    /\ InitialCapArg >= 1 /\ factoryCalls = InitialCapArg
    /\ ret.op = "Get" /\ ret.h # NilClient /\ ret.h \in held[ret.t]
    /\ Len(buf) = InitialCapArg - 1
Resident == {buf[i] : i \in DOMAIN buf}

\* C14: the handles in use are not limited by maxCap.  When more threads
\* than maxCap each hold a handle taken by Get, the handles are pairwise
\* distinct; once all of them have been put back, maxCap of them are
\* buffered, the others have each been released once, and no released
\* handle is buffered or in a caller's hands.
C14_BurstBeyondMaxCap ==
    /\ burst.phase = "out" =>
         /\ NThreads > MaxCapArg
         /\ Cardinality(burst.hs) = NThreads
         /\ NilClient \notin burst.hs
    /\ burst.phase = "back" =>
         /\ Len(buf) = MaxCapArg
         /\ Resident \subseteq burst.hs
         /\ Cardinality(Resident) = MaxCapArg
         /\ Cardinality({h \in burst.hs : released[h] = burst.rel0[h] + 1})
                = NThreads - MaxCapArg
         /\ \A h \in burst.hs : (h \in Resident) # (released[h] = burst.rel0[h] + 1)
         /\ \A h \in Handles \ burst.hs : released[h] = burst.rel0[h]
         /\ \A h \in Handles : released[h] > 0 => (Pooled(h) = 0 /\ InUse(h) = 0)

\* every thread held a handle at once and all have been put back
C14_Witness ==
    /\ burst.phase = "back"
    /\ Cardinality(burst.hs) = NThreads
    /\ NThreads > MaxCapArg
    /\ \E h \in burst.hs : released[h] = 1
\* C15: once Done has closed the channel it stays closed and nothing is
\* enqueued any more: under every interleaving with Get and Put the number
\* of buffered handles never grows, and once it is 0 it stays 0.
C15_ClosedNeverGrows ==
    [][closed => /\ closed'
                 /\ Len(buf') <= Len(buf)
                 /\ buf = <<>> => buf' = <<>>]_vars

\* a Put has tried to enqueue on the closed, drained channel
C15_Witness ==
    /\ closed
    /\ fatal = PanicSendClosed
    /\ \E t \in Threads : pc[t] = "panicked"
    /\ buf = <<>>
\* C16: Done on an open pool closes the channel without a panic and, run
\* alone, drains and returns; every Done on a pool that is already closed,
\* whether the first Done has returned or is still draining, panics on the
\* close of the closed channel and is never a no-op.
C16_SecondDonePanics ==
    /\ [](\A t \in Threads :
            /\ (Running /\ pc[t] = "idle") => ENABLED DoneClose(t)
            /\ (Running /\ pc[t] = "done_range") => ENABLED DoneRange(t))
    /\ [][\A t \in Threads :
            DoneClose(t)
                => IF closed
                   THEN /\ fatal' = PanicCloseClosed
                        /\ pc'[t] = "panicked"
                        /\ ret' = ret
                   ELSE /\ fatal' = ""
                        /\ closed'
                        /\ pc'[t] = "done_range"]_vars
    /\ [](doneObs.phase = "returned" => (fatal = "" /\ ret.op = "Done" /\ ret.t = doneObs.t))
    /\ [](fatal = PanicCloseClosed => (closed /\ \E t \in Threads : pc[t] = "panicked"))

\* a first Done has returned and a second one has panicked
C16_Witness ==
    /\ fatal = PanicCloseClosed
    /\ ret.op = "Done"
    /\ \E t \in Threads : pc[t] = "panicked"
    /\ \A t \in Threads : pc[t] # "done_range"
\* C17: a Get that starts after Done has returned can always take its
\* steps and returns the nil client: no panic, no factory call, nothing
\* handed to the caller and the pool left as it was.
C17_GetAfterDoneReturnsNil ==
    /\ [](\A t \in Threads :
            (Running /\ pc[t] = "get_select" /\ afterDone[t]) => ENABLED GetSelect(t))
    /\ [][\A t \in Threads :
            (Returns(t, "get_select") /\ afterDone[t])
                => /\ ret' = RetGet(t, NilClient)
                   /\ pc'[t] = "idle"
                   /\ fatal' = ""
                   /\ factoryCalls' = factoryCalls
                   /\ UNCHANGED <<buf, closed, released, held>>]_vars

\* a Get called after a completed Done has returned nil on a pool whose
\* handle the Done released
C17_Witness ==
    /\ DoneCompleted /\ fatal = ""
    /\ ret.op = "Get" /\ ret.h = NilClient
    /\ \E h \in Handles : released[h] = 1
    /\ \A t \in Threads : held[t] = {}
\* a Done is between its close and its return
DoneDraining == \E u \in Threads : pc[u] = "done_range"

\* C18: a Put of a non-nil handle that overlaps a Done (its select runs
\* on the channel the Done has closed, the call having started before the
\* Done returned) ends without a panic and returns nil, and its handle is
\* released by the Put or is in the buffer the Done is still draining.
C18_PutDuringDoneSucceeds ==
    [][\A t \in Threads :
        (Returns(t, "put_select") /\ closed /\ ~afterDone[t])
            => /\ fatal' = ""
               /\ ret' = RetPut(t, "")
               /\ \/ released'[client[t]] = released[client[t]] + 1
                  \/ /\ Occurrences(buf', client[t]) > 0
                     /\ DoneDraining']_vars

\* C19: no handle is leaked.  Once a Done has completed without a panic,
\* no call is in progress and no thread holds a handle, every handle the
\* factory has produced (in the constructor or in Get) has been released
\* exactly once and none is resident or in use.
C19_NoHandleLeaked ==
    (Running /\ DoneCompleted /\ AllIdle /\ \A t \in Threads : held[t] = {})
        => /\ buf = <<>>
           /\ \A h \in 1..factoryCalls :
                /\ released[h] = 1
                /\ Pooled(h) = 0
                /\ InUse(h) = 0

\* the constructor and a Get each produced a handle, the Get's handle was
\* put back, and a Done then released everything
C19_Witness ==
    /\ Running /\ DoneCompleted /\ AllIdle
    /\ \A t \in Threads : held[t] = {}
    /\ doneObs.phase = "returned"
    /\ factoryCalls >= 2
    /\ Len(doneObs.buf0) > 0
    /\ \A h \in 1..factoryCalls : released[h] = 1
\* C20: the channel reference and the factory are written by the
\* constructor only.  On a constructed pool both are set, no step of Get,
\* Put, Len or Done changes either, every call in progress has read the
\* channel and not nil, and so no Put takes the branch for a nil reference:
\* a Put's select on a closed channel panics instead of releasing.
C20_RefsFixedAfterConstruction ==
    /\ [](status = "ok" => (clientsRef = "chan" /\ factoryRef = "factory"))
    /\ [][status = "ok" => UNCHANGED <<clientsRef, factoryRef>>]_vars
    /\ [](\A t \in Threads :
            /\ pc[t] \in {"get_select", "len_len"} => conns[t] = "chan"
            /\ pc[t] = "put_select" => clientsRef # "nil")
    /\ [][\A t \in Threads :
            (Returns(t, "put_select") /\ closed)
                => (fatal' = PanicSendClosed /\ released' = released)]_vars

\* after a Get, a Put and a completed Done the reference is still the
\* channel, and a further Put went to the select and panicked
C20_Witness ==
    /\ status = "ok" /\ clientsRef = "chan" /\ factoryRef = "factory"
    /\ closed /\ ~DoneDraining
    /\ factoryCalls >= 1
    /\ \E h \in Handles : released[h] > 0
    /\ fatal = PanicSendClosed
====
